---- MODULE Spec2Model ----
(***************************************************************************)
(* Model of the TokenScanner of cuberat/go-textparser (textparser.go and   *)
(* classes.go).  The input is a sequence of "units": a unit is either the  *)
(* code point of a well-formed UTF-8 encoded rune or BadByte, a byte that   *)
(* starts no well-formed sequence.  bufio.Reader.ReadRune decodes a unit   *)
(* to (rune, size); a BadByte decodes to (U+FFFD, 1) with no error.        *)
(***************************************************************************)
EXTENDS Integers, Sequences, FiniteSets, TLC

VARIABLES input, ts, ret, tokStart, produced, sumBytes, snap

vars == <<input, ts, ret, tokStart, produced, sumBytes, snap>>

(* ------------------------------ bounds --------------------------------- *)
MaxLen == 4
MaxLenComment == 7
MaxLenQuote == 5
MaxLenNumber == 5
MaxLenOrder == 4
MaxLenLoop == 4

(* ------------------------------- runes --------------------------------- *)
BadByte == -1
RuneError == 65533
LF == 10
STAR == 42
MINUS == 45
DOT == 46
SLASH == 47
BACKSLASH == 92

\* utf8.RuneLen for a well-formed code point, 1 for a malformed byte
UnitSize(u) ==
    IF u = BadByte THEN 1
    ELSE IF u < 128 THEN 1
    ELSE IF u < 2048 THEN 2
    ELSE IF u < 65536 THEN 3
    ELSE 4

\* the rune ReadRune / utf8.DecodeRune yields for a unit
DecodeRune(u) == IF u = BadByte THEN RuneError ELSE u

(* ---------------- the unicode tables, on the modelled runes ------------- *)
UniSpace == {9, 10, 11, 12, 13, 32, 133, 160}
UniLetter == (65..90) \cup (97..122) \cup {233}
UniDigit == 48..57
UniMark == {769}
UniPunct == {33, 34, 35, 37, 38, 39, 40, 41, 42, 44, 45, 46, 47, 58, 59, 63,
             64, 91, 92, 93, 95, 123, 125, 171, 187, 8216, 8217, 8220, 8221,
             8249, 8250}
UniSymbol == {36, 43, 60, 61, 62, 94, 96, 124, 126, RuneError}

(* ------------------------------ errors --------------------------------- *)
NoPos == [Offset |-> 0, Line |-> 0, Column |-> 0]
Nil == [kind |-> "nil", pos |-> NoPos, ch |-> 0]
EOF == [kind |-> "EOF", pos |-> NoPos, ch |-> 0]
ErrInvalidUnreadRune == [kind |-> "ErrInvalidUnreadRune", pos |-> NoPos, ch |-> 0]
ErrInvalidUTF8 == [kind |-> "invalid utf-8 sequence", pos |-> NoPos, ch |-> 0]
ErrUnterminated(p, closing_char) ==
    [kind |-> "Unterminated string", pos |-> p, ch |-> closing_char]

(* ------------------------------ tokens --------------------------------- *)
NoToken == [Text |-> <<>>, NumBytes |-> 0, NumChars |-> 0, FirstRune |-> 0,
            Type |-> "nil"]

(* ----------------------- classes.go predicates ------------------------- *)
IsEscapeRune(ch) == ch = BACKSLASH

IsQuoteRune(ch) == ch \in {34, 39, 96}

IsQuoteRuneFancy(ch) == ch \in {34, 39, 96, 8220, 8216, 8249, 171}

ClosingPlain(ch) == ch

ClosingFancy(ch) ==
    CASE ch = 8220 -> 8221
      [] ch = 8216 -> 8217
      [] ch = 8249 -> 8250
      [] ch = 171 -> 187
      [] OTHER -> ch

IsSymbolRune(ch) ==
    IF IsQuoteRune(ch) THEN FALSE
    ELSE IF ch \in UniSymbol THEN TRUE
    ELSE ch \in UniPunct

\* mutant: digits are accepted at every index
IsIdentRune_digit_first(ch, i) ==
    \/ ch \in UniLetter
    \/ ch = 95
    \/ ch \notin UniPunct /\ (ch \in UniDigit \/ ch \in UniMark)

IsIdentRune(ch, i) ==
    IF ch \in UniLetter THEN TRUE
    ELSE IF ch = 95 THEN TRUE
    ELSE IF ch \in UniPunct THEN FALSE
    ELSE IF i > 0 /\ ch \in UniDigit THEN TRUE
    ELSE ch \in UniMark

\* a caller's replacement for the IsSymbolRune field, whose type is
\* func(ch rune) bool: '=' is accepted next to the default symbol runes.
\* get_general hands the predicate the rune alone, so the index and the runes
\* accepted so far cannot enter the decision
CustomSymbolRune(ch) == IF ch = 61 THEN TRUE ELSE IsSymbolRune(ch)

IsSpaceRune(ch) == ch \in UniSpace

IsDigitRune(ch) == ch \in UniDigit

\* the IsQuoteRune field of the scanner: (accepts, closing rune)
\* mutant: every quote closes with the rune that opened it
QuoteClosing_same(s, ch) == ch

QuoteOK(s, ch) == IF s.fancy THEN IsQuoteRuneFancy(ch) ELSE IsQuoteRune(ch)
QuoteClosing(s, ch) == IF s.fancy THEN ClosingFancy(ch) ELSE ClosingPlain(ch)

(* --------------------------- bufio.Reader ------------------------------ *)
\* reader = [r |-> units consumed, lastRuneSize |-> size of the rune an
\* UnreadRune may give back, -1 when there is none]
ReadRune(rd) ==
    IF rd.r >= Len(input)
    THEN [rd |-> [r |-> rd.r, lastRuneSize |-> -1], ch |-> 0, size |-> 0,
          err |-> EOF]
    ELSE [rd |-> [r |-> rd.r + 1, lastRuneSize |-> UnitSize(input[rd.r + 1])],
          ch |-> DecodeRune(input[rd.r + 1]),
          size |-> UnitSize(input[rd.r + 1]), err |-> Nil]

UnreadRune(rd) ==
    IF rd.lastRuneSize < 0 \/ rd.r = 0
    THEN [rd |-> rd, err |-> ErrInvalidUnreadRune]
    ELSE [rd |-> [r |-> rd.r - 1, lastRuneSize |-> -1], err |-> Nil]

\* Peek leaves the read index alone and forbids a following UnreadRune
Peek(rd) == [r |-> rd.r, lastRuneSize |-> -1]

(* ------------------------- rune-level helpers -------------------------- *)
\* `v := ...; F(v)`: the value is computed once and then named
Bind(v, F(_)) == CHOOSE r \in {F(y) : y \in {v}} : TRUE

get_one_rune(s) ==
    Bind(ReadRune(s.reader), LAMBDA rr :
        [s |-> [s EXCEPT !.reader = rr.rd,
                         !.last_err = IF rr.err # Nil THEN rr.err ELSE @],
         ch |-> rr.ch, size |-> rr.size, err |-> rr.err])

\* mutant: the rune just read is not given back
unread_rune_noop(s) == [s |-> s, err |-> Nil]

unread_rune(s) ==
    Bind(UnreadRune(s.reader), LAMBDA u :
        [s |-> [s EXCEPT !.reader = u.rd], err |-> u.err])

RECURSIVE peek_decode(_, _, _, _)
peek_decode(r, i, num_runes, runes) ==
    IF i >= num_runes THEN [runes |-> runes, err |-> Nil]
    ELSE IF r + i >= Len(input) THEN [runes |-> <<>>, err |-> EOF]
    ELSE IF DecodeRune(input[r + i + 1]) = RuneError
         THEN [runes |-> runes, err |-> ErrInvalidUTF8]
    ELSE peek_decode(r, i + 1, num_runes,
                     Append(runes, DecodeRune(input[r + i + 1])))

peek_multirune(s, num_runes) ==
    Bind(peek_decode(s.reader.r, 0, num_runes, <<>>), LAMBDA p :
        [s |-> [s EXCEPT !.reader = Peek(s.reader)],
         runes |-> p.runes, err |-> p.err])

\* check_next_rune_char_n / check_next_rune_class_n: the boolean result
check_next_rune_char_n(s, ch, n) ==
    Bind(peek_multirune(s, n), LAMBDA p :
        IF p.err # Nil THEN FALSE
        ELSE IF Len(p.runes) < n THEN FALSE
        ELSE p.runes[n] = ch)

\* mutant: the lookahead accepts whatever follows
check_next_rune_class_n_any(s, n) == TRUE

check_next_rune_class_n(s, n) ==
    Bind(peek_multirune(s, n), LAMBDA p :
        IF p.err # Nil THEN FALSE
        ELSE IF Len(p.runes) < n THEN FALSE
        ELSE IsDigitRune(p.runes[n]))

\* mutant: the lookahead consumes the first rune it looks at
after_peek_consuming(s) ==
    [s EXCEPT !.reader = [r |-> s.reader.r + 1, lastRuneSize |-> -1]]

\* the scanner after either check: only the reader's unread slot changes
after_peek(s) == [s EXCEPT !.reader = Peek(s.reader)]

\* the position bookkeeping every classifier does for one accepted rune
count_col(s, ch) ==
    IF ch = s.eol
    THEN [s EXCEPT !.last_line_addition = @ + 1, !.last_col = 1]
    ELSE [s EXCEPT !.last_col = @ + 1]

update_pos(s) ==
    [s EXCEPT !.pos = [Offset |-> s.pos.Offset + s.last_byte_len,
                       Line |-> s.pos.Line + s.last_line_addition,
                       Column |-> s.last_col],
              !.last_byte_len = 0,
              !.last_line_addition = 0]

(* ----------------------------- classifiers ---------------------------- *)
\* every classifier returns [s |-> scanner after it, token, err]
Result(s, token, err) == [s |-> s, token |-> token, err |-> err]

MkToken(runes, num_bytes, first, type) ==
    [Text |-> runes, NumBytes |-> num_bytes, NumChars |-> Len(runes),
     FirstRune |-> first, Type |-> type]

\* `if err = ts.unread_rune(); err != nil { return nil, err }`, then F
unread_then(s, F(_)) ==
    Bind(unread_rune(s), LAMBDA u :
        IF u.err # Nil THEN Result(u.s, NoToken, u.err) ELSE F(u.s))

\* get_general's rune_check and exceptions arguments, by token type
rune_check(s, token_type, ch) ==
    IF token_type = "Whitespace" THEN IsSpaceRune(ch)
    ELSE IF s.custom_symbols THEN CustomSymbolRune(ch)
    ELSE IsSymbolRune(ch)

\* mutant: get_symbol passes no exception to get_general
is_exception_none(s, token_type, ch) == FALSE

is_exception(s, token_type, ch) ==
    IF token_type = "Symbol" THEN QuoteOK(s, ch) ELSE FALSE

\* the tail shared by get_general, get_ident and get_number
finish(s, token_type, runes, total_size) ==
    IF Len(runes) = 0 THEN Result(s, NoToken, Nil)
    ELSE Bind(MkToken(runes, total_size, runes[1], token_type), LAMBDA token :
             Result([s EXCEPT !.last_byte_len = total_size,
                              !.LastToken = token], token, Nil))

RECURSIVE general_loop(_, _, _, _)
general_loop(s, token_type, runes, total_size) ==
    Bind(get_one_rune(s), LAMBDA g :
        IF g.err # Nil
        THEN IF g.err = EOF /\ Len(runes) > 0
             THEN finish(g.s, token_type, runes, total_size)
             ELSE Result(g.s, NoToken, g.err)
        ELSE IF ~is_exception(g.s, token_type, g.ch)
                /\ rune_check(g.s, token_type, g.ch)
        THEN general_loop(count_col(g.s, g.ch), token_type,
                          Append(runes, g.ch), total_size + g.size)
        ELSE unread_then(g.s, LAMBDA s1 :
                 finish(s1, token_type, runes, total_size)))

get_general(s, token_type) == general_loop(s, token_type, <<>>, 0)

\* mutant: a rune the symbol predicate rejects is dropped from the input
get_symbol_dropping(s) ==
    Bind(get_general(s, "Symbol"), LAMBDA r :
        IF r.token = NoToken /\ r.err = Nil
        THEN Bind(get_one_rune(r.s), LAMBDA g : Result(g.s, NoToken, Nil))
        ELSE r)

get_symbol(s) == get_general(s, "Symbol")

get_whitespace(s) == get_general(s, "Whitespace")

RECURSIVE ident_loop(_, _, _, _)
ident_loop(s, i, runes, total_size) ==
    Bind(get_one_rune(s), LAMBDA g :
        IF g.err # Nil
        THEN IF g.err = EOF /\ Len(runes) > 0
             THEN finish(g.s, "Ident", runes, total_size)
             ELSE Result(g.s, NoToken, g.err)
        ELSE IF IsIdentRune(g.ch, i)
        THEN ident_loop(count_col(g.s, g.ch), i + 1, Append(runes, g.ch),
                        total_size + g.size)
        ELSE Bind(unread_rune(g.s), LAMBDA u :
                 IF u.err # Nil THEN Result(u.s, NoToken, Nil)
                 ELSE finish(u.s, "Ident", runes, total_size)))

\* mutant: the identifier is returned and its runes are given back
get_ident_rewinding(s) ==
    Bind(ident_loop(s, 0, <<>>, 0), LAMBDA r :
        IF r.token # NoToken THEN [r EXCEPT !.s.reader = s.reader] ELSE r)

get_ident(s) == ident_loop(s, 0, <<>>, 0)

\* read_until returns [s, runes, err]
RECURSIVE read_until_loop(_, _, _)
read_until_loop(s, end_ch, runes) ==
    Bind(get_one_rune(s), LAMBDA g :
        IF g.err # Nil
        THEN IF g.err = EOF /\ end_ch = g.s.eol
             THEN [s |-> g.s, runes |-> runes, err |-> Nil]
             ELSE [s |-> g.s, runes |-> <<>>, err |-> g.err]
        ELSE Bind(count_col([g.s EXCEPT !.last_byte_len = @ + g.size], g.ch),
                  LAMBDA s1 :
                 IF g.ch = end_ch
                 THEN [s |-> s1, runes |-> Append(runes, g.ch), err |-> Nil]
                 ELSE read_until_loop(s1, end_ch, Append(runes, g.ch))))

read_until(s, end_ch) == read_until_loop(s, end_ch, <<>>)

\* get_n_runes returns [s, chars, err]
RECURSIVE get_n_runes_loop(_, _, _, _)
get_n_runes_loop(s, i, n, chars) ==
    IF i >= n THEN [s |-> s, chars |-> chars, err |-> Nil]
    ELSE Bind(ReadRune(s.reader), LAMBDA rr :
        IF rr.err # Nil
        THEN [s |-> [s EXCEPT !.reader = rr.rd, !.last_err = rr.err],
              chars |-> chars, err |-> rr.err]
        ELSE Bind([s EXCEPT !.reader = rr.rd,
                            !.last_byte_len = @ + rr.size,
                            !.last_col = @ + 1], LAMBDA s1 :
                 get_n_runes_loop(
                     IF rr.ch = s.eol
                     THEN [s1 EXCEPT !.last_line_addition = @ + 1,
                                     !.last_col = 1]
                     ELSE s1,
                     i + 1, n, Append(chars, rr.ch))))

get_n_runes(s, n) == get_n_runes_loop(s, 0, n, <<>>)

comment_token(s, all_runes) ==
    IF Len(all_runes) > 0
    THEN Bind(MkToken(all_runes, s.last_byte_len, SLASH, "Comment"),
              LAMBDA token :
                 Result([s EXCEPT !.LastToken = token], token, Nil))
    ELSE Result(s, NoToken, Nil)

\* the `for !done` loop of the multi-line branch
RECURSIVE block_comment_loop(_, _)
block_comment_loop(s, all_runes) ==
    Bind(read_until(s, STAR), LAMBDA ru :
        IF ru.err # Nil THEN Result(ru.s, NoToken, ru.err)
        ELSE Bind(get_one_rune(ru.s), LAMBDA g :
            IF g.err # Nil THEN Result(g.s, NoToken, g.err)
            ELSE IF g.ch # SLASH
            THEN block_comment_loop(g.s, all_runes \o ru.runes \o <<g.ch>>)
            ELSE comment_token(g.s, all_runes \o ru.runes \o <<g.ch>>)))

\* mutant: a line comment that meets the end of the input before an
\* end-of-line rune is an error
line_comment_strict(s) ==
    Bind(get_n_runes(s, 2), LAMBDA n :
        IF n.err # Nil THEN Result(n.s, NoToken, n.err)
        ELSE Bind(read_until(n.s, n.s.eol), LAMBDA ru :
            IF ru.runes = <<>> \/ ru.runes[Len(ru.runes)] # n.s.eol
            THEN Result(ru.s, NoToken, EOF)
            ELSE comment_token(ru.s, n.chars \o ru.runes)))

line_comment(s) ==
    Bind(get_n_runes(s, 2), LAMBDA n :
        IF n.err # Nil THEN Result(n.s, NoToken, n.err)
        ELSE Bind(read_until(n.s, n.s.eol), LAMBDA ru :
            IF ru.err # Nil /\ ru.err # EOF
            THEN Result(ru.s, NoToken, ru.err)
            ELSE comment_token(ru.s, n.chars \o ru.runes)))

block_comment(s) ==
    Bind(get_n_runes(s, 2), LAMBDA n :
        IF n.err # Nil THEN Result(n.s, NoToken, n.err)
        ELSE block_comment_loop(n.s, n.chars))

get_comment(s) ==
    Bind(get_one_rune(s), LAMBDA g :
        IF g.err # Nil THEN Result(g.s, NoToken, g.err)
        ELSE IF g.ch = SLASH
        THEN unread_then(g.s, LAMBDA s1 :
                 IF check_next_rune_char_n(s1, SLASH, 2)
                 THEN line_comment(after_peek(s1))
                 ELSE IF check_next_rune_char_n(s1, STAR, 2)
                 THEN block_comment(after_peek(s1))
                 ELSE comment_token(after_peek(s1), <<>>))
        ELSE unread_then(g.s, LAMBDA s1 : Result(s1, NoToken, Nil)))

\* mutant: a closing rune after two escape runes is taken as not escaped
escaped_pairwise(runes) ==
    /\ Len(runes) > 1
    /\ IsEscapeRune(runes[Len(runes) - 1])
    /\ ~(Len(runes) > 2 /\ IsEscapeRune(runes[Len(runes) - 2]))

\* the escape check on one segment returned by read_until
escaped(runes) ==
    Len(runes) > 1 /\ IsEscapeRune(runes[Len(runes) - 1])

\* mutant: the escape rune stays in the text
drop_escape_kept(runes) == runes

drop_escape(runes) ==
    Append(SubSeq(runes, 1, Len(runes) - 2), runes[Len(runes)])

quoted_token(s, ch, all_runes) ==
    Bind([Text |-> <<ch>> \o all_runes, NumBytes |-> s.last_byte_len,
          NumChars |-> Len(all_runes) + 1, FirstRune |-> ch,
          Type |-> "String"], LAMBDA token :
        Result([s EXCEPT !.LastToken = token], token, Nil))

RECURSIVE quoted_loop(_, _, _, _)
quoted_loop(s, ch, closing_char, all_runes) ==
    Bind(read_until(s, closing_char), LAMBDA ru :
        IF ru.err # Nil
        THEN Result(ru.s, NoToken, ErrUnterminated(ru.s.pos, closing_char))
        ELSE IF escaped(ru.runes)
        THEN quoted_loop(ru.s, ch, closing_char,
                         all_runes \o drop_escape(ru.runes))
        ELSE quoted_token(ru.s, ch, all_runes \o ru.runes))

get_quoted(s) ==
    Bind(get_one_rune(s), LAMBDA g :
        IF g.err # Nil THEN Result(g.s, NoToken, g.err)
        ELSE IF ~QuoteOK(g.s, g.ch)
        THEN unread_then(g.s, LAMBDA s1 : Result(s1, NoToken, Nil))
        ELSE quoted_loop([g.s EXCEPT !.last_byte_len = @ + g.size],
                         g.ch, QuoteClosing(g.s, g.ch), <<>>))

\* mutant: the decimal point does not change the token's type
number_type_int(f) == "Int"

number_type(f) == IF f.is_float THEN "Float" ELSE "Int"

\* f = [found_digits, found_decimal, is_float]
RECURSIVE number_loop(_, _, _, _)

\* the shape shared by the '.' and '-' branches, entered with the rune g.ch
\* just read: unread it, look two runes ahead, and on a digit take the rune
\* and read it back in; f2 holds the flags for the accepting case
number_lookahead(g, runes, total_size, f, f2) ==
    unread_then(g.s, LAMBDA s1 :
        IF check_next_rune_class_n(s1, 2)
        THEN Bind(get_one_rune([after_peek(s1) EXCEPT !.last_col = @ + 1]),
                  LAMBDA g2 :
                 IF g2.err # Nil
                 THEN IF g2.err = EOF /\ Len(runes) + 1 > 0
                      THEN finish(g2.s, number_type(f2), Append(runes, g.ch),
                                  total_size + g.size)
                      ELSE Result(g2.s, NoToken, g2.err)
                 ELSE number_loop(g2.s, Append(runes, g.ch),
                                  total_size + g.size, f2))
        ELSE finish(after_peek(s1), number_type(f), runes, total_size))

number_loop(s, runes, total_size, f) ==
    Bind(get_one_rune(s), LAMBDA g :
        IF g.err # Nil
        THEN IF g.err = EOF /\ Len(runes) > 0
             THEN finish(g.s, number_type(f), runes, total_size)
             ELSE Result(g.s, NoToken, g.err)
        ELSE IF g.ch = DOT /\ f.found_digits /\ ~f.found_decimal
        THEN number_lookahead(g, runes, total_size, f,
                 [f EXCEPT !.found_decimal = TRUE, !.is_float = TRUE])
        ELSE IF g.ch = MINUS /\ ~f.found_digits
        THEN number_lookahead(g, runes, total_size, f, f)
        ELSE IF IsDigitRune(g.ch)
        THEN number_loop(count_col(g.s, g.ch), Append(runes, g.ch),
                         total_size + g.size,
                         [f EXCEPT !.found_digits = TRUE])
        ELSE unread_then(g.s, LAMBDA s1 :
                 finish(s1, number_type(f), runes, total_size)))

get_number(s) ==
    number_loop(s, <<>>, 0, [found_digits |-> FALSE, found_decimal |-> FALSE,
                             is_float |-> FALSE])

(* ------------------------------- Scan ---------------------------------- *)
\* `token, err = ts.get_x(); if token != nil ...; if err != nil ...`: the
\* result r of one classifier ends the attempt, or the next one is tried
or_else(r, F(_)) ==
    Bind(r, LAMBDA x : IF x.token # NoToken \/ x.err # Nil THEN x ELSE F(x.s))

\* mutant: the symbol classifier is tried before the identifier classifier
attempt_symbol_first(s) ==
    or_else(get_whitespace(s), LAMBDA s1 :
    or_else(get_comment(s1), LAMBDA s2 :
    or_else(get_quoted(s2), LAMBDA s3 :
    or_else(get_symbol(s3), LAMBDA s4 :
    or_else(get_ident(s4), LAMBDA s5 : get_number(s5))))))

\* one pass of the classifiers in Scan's order: the first token or error
attempt(s) ==
    or_else(get_whitespace(s), LAMBDA s1 :
    or_else(get_comment(s1), LAMBDA s2 :
    or_else(get_quoted(s2), LAMBDA s3 :
    or_else(get_ident(s3), LAMBDA s4 :
    or_else(get_number(s4), LAMBDA s5 : get_symbol(s5))))))

\* mutant: Scan surfaces every token, whatever the skip flags say
skipped_never(s, token) == FALSE

skipped(s, token) ==
    \/ token.Type = "Whitespace" /\ s.SkipWhitespace
    \/ token.Type = "Comment" /\ s.SkipComments

\* mutant: the position is advanced once per Scan call, not once per attempt
RECURSIVE scan_loop_pos_once(_, _)
scan_loop_pos_once(s, trail) ==
    Bind(IF trail = <<>> THEN update_pos(s) ELSE s, LAMBDA s0 :
    Bind(attempt(s0), LAMBDA a :
    Bind([token |-> a.token, from |-> s0.reader.r, to |-> a.s.reader.r],
         LAMBDA entry :
        IF a.token # NoToken
        THEN IF skipped(a.s, a.token)
             THEN scan_loop_pos_once(a.s, Append(trail, entry))
             ELSE [s |-> a.s, ok |-> TRUE, err |-> a.err,
                   trail |-> Append(trail, entry), start |-> s0.reader.r]
        ELSE [s |-> a.s, ok |-> FALSE, err |-> a.err, trail |-> trail,
              start |-> s0.reader.r])))

\* the `for !done` loop.  trail records, for every token the call produced,
\* the token and the reader indexes where its attempt began and ended
RECURSIVE scan_loop(_, _)
scan_loop(s, trail) ==
    Bind(update_pos(s), LAMBDA s0 :
    Bind(attempt(s0), LAMBDA a :
    Bind([token |-> a.token, from |-> s0.reader.r, to |-> a.s.reader.r],
         LAMBDA entry :
        IF a.token # NoToken
        THEN IF skipped(a.s, a.token)
             THEN scan_loop(a.s, Append(trail, entry))
             ELSE [s |-> a.s, ok |-> TRUE, err |-> a.err,
                   trail |-> Append(trail, entry), start |-> s0.reader.r]
        ELSE [s |-> a.s, ok |-> FALSE, err |-> a.err, trail |-> trail,
              start |-> s0.reader.r])))

\* mutant: Scan without its deferred assignment, so that Err() keeps what
\* get_one_rune stored on the way
deferred_dropped(r) == r

\* the deferred `ts.last_err = err`
deferred(r) == [r EXCEPT !.s.last_err = r.err]

\* mutant: the redelivering step runs update_pos like any other scan step
Redeliver_after_update_pos(s) ==
    [update_pos(s) EXCEPT !.unread_pending = FALSE, !.unread_ok = TRUE,
                          !.LastToken = s.saved.token, !.last_err = Nil]

\* redelivery of the pushed-back (token, position) pair
Redeliver(s) ==
    [s EXCEPT !.unread_pending = FALSE, !.unread_ok = TRUE,
              !.LastToken = s.saved.token, !.pos = s.saved.pos,
              !.last_err = Nil]

\* a successful step captures the (token, position) pair UnreadToken needs
capture(r) ==
    IF r.ok
    THEN [r EXCEPT !.s.unread_ok = TRUE,
                   !.s.saved = [token |-> r.s.LastToken, pos |-> r.s.pos]]
    ELSE [r EXCEPT !.s.unread_ok = FALSE]

Scan(s) == Bind(deferred(scan_loop(s, <<>>)), LAMBDA r : capture(r))

\* UnreadToken returns [s, err]
ErrUnread == [kind |-> "UnreadToken", pos |-> NoPos, ch |-> 0]

\* mutant: UnreadToken accepts every call
UnreadToken_unchecked(s) ==
    [s |-> [s EXCEPT !.unread_pending = TRUE, !.unread_ok = FALSE],
     err |-> Nil]

UnreadToken(s) ==
    IF s.unread_pending \/ ~s.unread_ok
    THEN [s |-> s, err |-> ErrUnread]
    ELSE [s |-> [s EXCEPT !.unread_pending = TRUE, !.unread_ok = FALSE],
          err |-> Nil]

\* Init(r io.Reader)
NewScanner ==
    [reader |-> [r |-> 0, lastRuneSize |-> -1],
     pos |-> [Offset |-> 0, Line |-> 1, Column |-> 1],
     last_err |-> Nil, last_byte_len |-> 0, last_line_addition |-> 0,
     last_col |-> 1, eol |-> LF, SkipWhitespace |-> TRUE,
     SkipComments |-> TRUE, LastToken |-> NoToken, fancy |-> FALSE,
     custom_symbols |-> FALSE,
     unread_pending |-> FALSE, unread_ok |-> FALSE,
     saved |-> [token |-> NoToken, pos |-> NoPos]]

(* --------------------------- ground truth ------------------------------ *)
RECURSIVE BytesBetween(_, _)
BytesBetween(from, to) ==
    IF from >= to THEN 0
    ELSE UnitSize(input[to]) + BytesBetween(from, to - 1)

RECURSIVE EOLsBefore(_)
EOLsBefore(i) ==
    IF i = 0 THEN 0
    ELSE (IF DecodeRune(input[i]) = LF THEN 1 ELSE 0) + EOLsBefore(i - 1)

RECURSIVE RunesSinceEOL(_)
RunesSinceEOL(i) ==
    IF i = 0 \/ DecodeRune(input[i]) = LF THEN 0
    ELSE 1 + RunesSinceEOL(i - 1)

\* the coordinates of the unit after the first i units of the input
TruePos(i) == [Offset |-> BytesBetween(0, i), Line |-> 1 + EOLsBefore(i),
               Column |-> 1 + RunesSinceEOL(i)]

RECURSIVE SumBytes(_)
SumBytes(trail) ==
    IF trail = <<>> THEN 0
    ELSE Head(trail).token.NumBytes + SumBytes(Tail(trail))

(* ------------------------------ actions -------------------------------- *)
RECURSIVE Strings(_, _)
Strings(A, n) ==
    IF n = 0 THEN {<<>>}
    ELSE LET S == Strings(A, n - 1)
         IN S \cup {Append(x, a) : x \in {y \in S : Len(y) = n - 1}, a \in A}

InitWith(A, n) ==
    /\ input \in Strings(A, n)
    /\ ts = NewScanner
    /\ ret = "init"
    /\ tokStart = 0
    /\ produced = <<>>
    /\ sumBytes = 0
    /\ snap = [ts |-> NewScanner, redelivered |-> FALSE, unread_err |-> Nil]

\* the configuration fields are assigned before scanning begins
SetSkipWhitespace ==
    /\ ret = "init"
    /\ \E b \in BOOLEAN : ts' = [ts EXCEPT !.SkipWhitespace = b]
    /\ ts' # ts
    /\ UNCHANGED <<input, ret, tokStart, produced, sumBytes, snap>>

SetSkipComments ==
    /\ ret = "init"
    /\ \E b \in BOOLEAN : ts' = [ts EXCEPT !.SkipComments = b]
    /\ ts' # ts
    /\ UNCHANGED <<input, ret, tokStart, produced, sumBytes, snap>>

\* ts.IsQuoteRune = IsQuoteRuneFancy
SetIsQuoteRune ==
    /\ ret = "init"
    /\ \E b \in BOOLEAN : ts' = [ts EXCEPT !.fancy = b]
    /\ ts' # ts
    /\ UNCHANGED <<input, ret, tokStart, produced, sumBytes, snap>>

\* ts.IsSymbolRune = the caller's predicate
SetIsSymbolRune ==
    /\ ret = "init"
    /\ \E b \in BOOLEAN : ts' = [ts EXCEPT !.custom_symbols = b]
    /\ ts' # ts
    /\ UNCHANGED <<input, ret, tokStart, produced, sumBytes, snap>>

ScanCall ==
    /\ ~ts.unread_pending
    /\ \E r \in {Scan(ts)} :
          /\ ts' = r.s
          /\ ret' = IF r.ok THEN "true" ELSE "false"
          /\ tokStart' = r.start
          /\ produced' = r.trail
          /\ sumBytes' = sumBytes + SumBytes(r.trail)
          /\ snap' = IF r.ok THEN [ts |-> r.s, redelivered |-> FALSE,
                                    unread_err |-> Nil]
                     ELSE [snap EXCEPT !.redelivered = FALSE,
                                       !.unread_err = Nil]
    /\ UNCHANGED input

ScanRedeliver ==
    /\ ts.unread_pending
    /\ ts' = Redeliver(ts)
    /\ ret' = "true"
    /\ snap' = [snap EXCEPT !.redelivered = TRUE, !.unread_err = Nil]
    /\ UNCHANGED <<input, tokStart, produced, sumBytes>>

\* snap.unread_err keeps the error the call returned
UnreadTokenCall ==
    /\ \E u \in {UnreadToken(ts)} :
          /\ ts' = u.s
          /\ snap' = [snap EXCEPT !.redelivered = FALSE, !.unread_err = u.err]
    /\ <<ts', snap'>> # <<ts, snap>>
    /\ UNCHANGED <<input, ret, tokStart, produced, sumBytes>>

Next ==
    \/ SetSkipWhitespace
    \/ SetSkipComments
    \/ ScanCall
    \/ ScanRedeliver
    \/ UnreadTokenCall

\* space, line feed, '/', '"', e-acute (a two-byte letter), a malformed byte
Alphabet == {32, LF, SLASH, 34, 233, BadByte}

Init == InitWith(Alphabet, MaxLen)

Spec == Init /\ [][Next]_vars

\* the comment scanner on its own: '/', '*', line feed, 'a'
CommentAlphabet == {SLASH, STAR, LF, 97}

InitComment == InitWith(CommentAlphabet, MaxLenComment)

NextComment == SetSkipComments \/ ScanCall

SpecComment == InitComment /\ [][NextComment]_vars

\* quoted strings: '"', backslash, 'a', and the fancy pair U+201C U+201D
QuoteAlphabet == {34, BACKSLASH, 97, 8220, 8221}

InitQuote == InitWith(QuoteAlphabet, MaxLenQuote)

NextQuote == SetIsQuoteRune \/ ScanCall

SpecQuote == InitQuote /\ [][NextQuote]_vars

\* numbers and symbols: '-', '.', '5', '+', '=', space
NumberAlphabet == {MINUS, DOT, 53, 43, 61, 32}

InitNumber == InitWith(NumberAlphabet, MaxLenNumber)

NextNumber == SetSkipWhitespace \/ SetIsSymbolRune \/ ScanCall

SpecNumber == InitNumber /\ [][NextNumber]_vars

\* one rune per classifier and the runes two of them could take: U+0001 (a
\* control character), '_', '4', 'a', '-', '/', space
OrderAlphabet == {1, 95, 52, 97, MINUS, SLASH, 32}

InitOrder == InitWith(OrderAlphabet, MaxLenOrder)

NextOrder == SetSkipWhitespace \/ SetSkipComments \/ ScanCall

SpecOrder == InitOrder /\ [][NextOrder]_vars

\* the loops inside the classifiers: '/', '*', '"', backslash, 'a', space,
\* line feed
LoopAlphabet == {SLASH, STAR, 34, BACKSLASH, 97, 32, LF}

InitLoop == InitWith(LoopAlphabet, MaxLenLoop)

NextLoop == SetSkipComments \/ SetSkipWhitespace \/ ScanCall

SpecLoop == InitLoop /\ [][NextLoop]_vars

(* ------------------------------ accessors ------------------------------ *)
Err(s) == s.last_err

Token(s) == s.LastToken

TokenText(s) == IF s.LastToken = NoToken THEN <<>> ELSE s.LastToken.Text

Position(s) == s.pos

(* ------------------------------- claims -------------------------------- *)
\* the entry of the token the last Scan call surfaced
Surfaced == produced[Len(produced)]

\* C1: whenever Scan returns true, Position().Offset is the number of input
\* bytes that precede the first byte of the surfaced token, whatever tokens
\* (block comments included) were surfaced or skipped before it.
C1_OffsetIsTokenStart ==
    ret = "true" => Position(ts).Offset = TruePos(tokStart).Offset

\* C2: whenever Scan returns true, Position().Column is 1 plus the number of
\* runes between the last end-of-line rune before the token (or the start of
\* the input) and the token's first rune, also after a quoted string.
C2_ColumnIsTokenStart ==
    ret = "true" => Position(ts).Column = TruePos(tokStart).Column

\* C3: whenever Scan returns true, Position().Line is 1 plus the number of
\* end-of-line runes before the token's first rune, those embedded in
\* earlier tokens included.
C3_LineIsTokenStart ==
    ret = "true" => Position(ts).Line = TruePos(tokStart).Line

\* C4: when Scan has been called until it returned false, the NumBytes of
\* all surfaced and skipped tokens add up to the byte length of the input
\* (stated for the runs in which every rune went into some token).
C4_ByteLengthsSumToInput ==
    (ret = "false" /\ tokStart = Len(input))
        => sumBytes = BytesBetween(0, Len(input))

\* C5: every token a classifier produces has NumBytes equal to the input
\* bytes consumed to form it, NumChars equal to the number of runes of its
\* Text, and FirstRune equal to the first rune of its Text.
C5_TokenCounts ==
    \A k \in 1..Len(produced) :
        /\ produced[k].token.NumBytes
               = BytesBetween(produced[k].from, produced[k].to)
        /\ produced[k].token.NumChars = Len(produced[k].token.Text)
        /\ produced[k].token.FirstRune = produced[k].token.Text[1]

AtQuote ==
    /\ tokStart < Len(input)
    /\ QuoteOK(ts, DecodeRune(input[tokStart + 1]))

\* C7: if a quote-opening rune is read and the input ends before an
\* unescaped closing rune, Scan returns false, produces no String token, and
\* Err() is the unterminated-string error carrying the position where the
\* opening quote began and the expected closing rune.
C7_UnterminatedQuote ==
    (ret = "false" /\ AtQuote) =>
        /\ Err(ts) = ErrUnterminated(TruePos(tokStart),
               QuoteClosing(ts, DecodeRune(input[tokStart + 1])))
        /\ \A k \in 1..Len(produced) : produced[k].token.Type # "String"

\* C8: after Scan returns false, Err() is nil or the end-of-input sentinel
\* only if the input ended at a token boundary; an input that ends inside an
\* unterminated quoted string or block comment gives another error.
C8_ErrTellsCleanEnd ==
    (ret = "false" /\ Err(ts) \in {Nil, EOF}) => tokStart = Len(input)

\* C9: a malformed UTF-8 byte is reported as an invalid-encoding error: no
\* surfaced token contains it, and the Scan that reaches it returns false
\* with a non-nil, non-EOF Err().
C9_InvalidEncodingReported ==
    /\ ret = "true" =>
           \A k \in (Surfaced.from + 1)..Surfaced.to : input[k] # BadByte
    /\ (ret = "false" /\ tokStart < Len(input)
            /\ input[tokStart + 1] = BadByte) => Err(ts) \notin {Nil, EOF}

\* C10: whenever Scan returns true, Err() is nil and Token() is the non-nil
\* token just surfaced, with TokenText() its text, also when whitespace or
\* comments were skipped earlier in the same call.
C10_ScanTrueState ==
    ret = "true" =>
        /\ Err(ts) = Nil
        /\ Token(ts) # NoToken
        /\ Token(ts) = Surfaced.token
        /\ TokenText(ts) = Surfaced.token.Text

\* a token that ends at the end of the input was surfaced after a skipped one
C10_Witness ==
    /\ ret = "true"
    /\ ~snap.redelivered
    /\ Len(produced) > 1
    /\ ts.reader.r = Len(input)

\* C11: Init leaves both skip flags true; a Scan that returns true never
\* surfaces a Whitespace token while SkipWhitespace is true nor a Comment
\* token while SkipComments is true; every such token is discarded and the
\* next attempt starts right after it within the same Scan call.
C11_SkipFlags ==
    /\ NewScanner.SkipWhitespace /\ NewScanner.SkipComments
    /\ \A k \in 1..Len(produced) :
           IF k = Len(produced) /\ ret = "true"
           THEN /\ ts.SkipWhitespace => produced[k].token.Type # "Whitespace"
                /\ ts.SkipComments => produced[k].token.Type # "Comment"
           ELSE /\ \/ ts.SkipWhitespace /\ produced[k].token.Type = "Whitespace"
                   \/ ts.SkipComments /\ produced[k].token.Type = "Comment"
                /\ produced[k].to = (IF k < Len(produced)
                                     THEN produced[k + 1].from ELSE tokStart)

\* with both flags set, a comment was discarded and the same call surfaced
\* the token after it
C11_Witness ==
    /\ ret = "true"
    /\ ts.SkipWhitespace /\ ts.SkipComments
    /\ Len(produced) = 2
    /\ produced[1].token.Type = "Comment"
    /\ produced[2].token.Type = "Ident"

(* ---------------- the input's comments, read off the input -------------- *)
\* the units i+1 and i+2 of the input are the runes a and b
IsAt(i, a, b) ==
    /\ i + 2 <= Len(input)
    /\ DecodeRune(input[i + 1]) = a
    /\ DecodeRune(input[i + 2]) = b

\* the index of the '/' of the first "*/" after the "/*" that starts at unit
\* i + 1, or 0 when there is none
BlockCommentEnd(i) ==
    LET ends == {j \in (i + 4)..Len(input) : IsAt(j - 2, STAR, SLASH)}
    IN IF ends = {} THEN 0
       ELSE CHOOSE j \in ends : \A j2 \in ends : j <= j2

\* the index of the first end-of-line rune after the "//" that starts at unit
\* i + 1, or the end of the input when there is none
LineCommentEnd(i) ==
    LET ends == {j \in (i + 3)..Len(input) : DecodeRune(input[j]) = LF}
    IN IF ends = {} THEN Len(input)
       ELSE CHOOSE j \in ends : \A j2 \in ends : j <= j2

\* a comment starts at unit i + 1: "//", or "/*" with a "*/" after it
CommentAt(i) ==
    \/ IsAt(i, SLASH, SLASH)
    \/ IsAt(i, SLASH, STAR) /\ BlockCommentEnd(i) > 0

\* the runes of the units from + 1 .. to of the input
Span(from, to) == [k \in 1..(to - from) |-> DecodeRune(input[from + k])]

\* C12: with SkipWhitespace false a Whitespace token is a whole maximal run
\* of whitespace runes (not empty, not split, nothing else in it) and an
\* attempt that starts at a whitespace rune surfaces one; with SkipComments
\* false an attempt that starts at a comment surfaces one Comment token that
\* begins there.
C12_RunsSurfacedWhole ==
    /\ ~ts.SkipWhitespace =>
          /\ \A k \in 1..Len(produced) :
                 produced[k].token.Type = "Whitespace" =>
                    /\ produced[k].to > produced[k].from
                    /\ produced[k].token.Text
                          = Span(produced[k].from, produced[k].to)
                    /\ \A j \in 1..Len(produced[k].token.Text) :
                           IsSpaceRune(produced[k].token.Text[j])
                    /\ produced[k].to < Len(input) =>
                           ~IsSpaceRune(DecodeRune(input[produced[k].to + 1]))
                    /\ (produced[k].from > 0
                          /\ IsSpaceRune(DecodeRune(input[produced[k].from])))
                         => DecodeRune(input[produced[k].from]) = ts.eol
          /\ (ret \in {"true", "false"} /\ tokStart < Len(input)
                 /\ IsSpaceRune(DecodeRune(input[tokStart + 1])))
                => /\ ret = "true"
                   /\ Surfaced.token.Type = "Whitespace"
                   /\ Surfaced.from = tokStart
    /\ (~ts.SkipComments /\ ret \in {"true", "false"} /\ CommentAt(tokStart))
          => /\ ret = "true"
             /\ Surfaced.token.Type = "Comment"
             /\ Surfaced.from = tokStart

(* ------------------------ the shape of a number ------------------------ *)
\* every rune of the sequence is a digit rune, and there is at least one
AllDigits(runes) ==
    /\ Len(runes) > 0
    /\ \A j \in 1..Len(runes) : IsDigitRune(runes[j])

\* the text without a leading '-'
Unsigned(runes) ==
    IF Len(runes) > 0 /\ runes[1] = MINUS
    THEN SubSeq(runes, 2, Len(runes)) ELSE runes

\* -?D+
IntShape(runes) == AllDigits(Unsigned(runes))

\* -?D+.D+
FloatShape(runes) ==
    \E d \in 1..Len(Unsigned(runes)) :
        /\ Unsigned(runes)[d] = DOT
        /\ AllDigits(SubSeq(Unsigned(runes), 1, d - 1))
        /\ AllDigits(SubSeq(Unsigned(runes), d + 1, Len(Unsigned(runes))))

\* the rune of unit i of the input, 0 past the end
RuneAt(i) == IF i >= 1 /\ i <= Len(input) THEN DecodeRune(input[i]) ELSE 0

\* C13: a number token is Float exactly when its text holds a '.', an Int
\* text has the shape -?D+ and a Float text the shape -?D+.D+ (so the '.' is
\* taken once, after a digit and before a digit); the token is the input
\* span it was read from, a '.' followed by a digit is not left behind by an
\* Int, and a '.' left behind starts the Symbol token that comes next.
C13_DecimalPoint ==
    /\ \A k \in 1..Len(produced) :
          LET tok == produced[k].token
              nxt == produced[k].to + 1
          IN /\ tok.Type = "Int" =>
                   /\ IntShape(tok.Text)
                   /\ tok.Text = Span(produced[k].from, produced[k].to)
                   /\ ~(RuneAt(nxt) = DOT /\ IsDigitRune(RuneAt(nxt + 1)))
             /\ tok.Type = "Float" =>
                   /\ FloatShape(tok.Text)
                   /\ tok.Text = Span(produced[k].from, produced[k].to)
    /\ (ret \in {"true", "false"} /\ RuneAt(tokStart + 1) = DOT) =>
          /\ ret = "true"
          /\ Surfaced.token.Type = "Symbol"
          /\ Surfaced.from = tokStart
          /\ Surfaced.token.FirstRune = DOT

\* the input is digits and a final '.', and the '.' the Int left behind was
\* surfaced as a Symbol
C13_Witness ==
    /\ ret = "true"
    /\ Surfaced.token.Type = "Symbol"
    /\ Surfaced.token.Text = <<DOT>>
    /\ Surfaced.from >= 2
    /\ Surfaced.to = Len(input)
    /\ \A j \in 1..Surfaced.from : IsDigitRune(RuneAt(j))

\* C14: in a number token a '-' is only the first rune and a digit follows
\* it; an attempt that starts at a '-' gives a number that begins with that
\* '-' when a digit comes right after it, and otherwise (space, symbol, end
\* of input) leaves the '-' to a Symbol token that starts there.
C14_MinusSign ==
    /\ \A k \in 1..Len(produced) :
          produced[k].token.Type \in {"Int", "Float"} =>
             /\ \A j \in 2..Len(produced[k].token.Text) :
                    produced[k].token.Text[j] # MINUS
             /\ produced[k].token.Text[1] = MINUS =>
                    /\ Len(produced[k].token.Text) >= 2
                    /\ IsDigitRune(produced[k].token.Text[2])
    /\ (ret \in {"true", "false"} /\ RuneAt(tokStart + 1) = MINUS) =>
          /\ ret = "true"
          /\ Surfaced.from = tokStart
          /\ Surfaced.token.FirstRune = MINUS
          /\ IF IsDigitRune(RuneAt(tokStart + 2))
             THEN Surfaced.token.Type \in {"Int", "Float"}
             ELSE Surfaced.token.Type = "Symbol"

\* a '-' with a space before the digit was surfaced as a Symbol of its own
C14_Witness ==
    /\ ret = "true"
    /\ Surfaced.token.Type = "Symbol"
    /\ Surfaced.token.Text = <<MINUS>>
    /\ RuneAt(Surfaced.to + 1) = 32
    /\ IsDigitRune(RuneAt(Surfaced.to + 2))

(* ---------------- the input's strings, read off the input --------------- *)
\* the closing rune the configured quote predicate pairs with the opener o
Closing(o) == IF ts.fancy THEN ClosingFancy(o) ELSE ClosingPlain(o)

\* unit j holds an escaped occurrence of c in the body of the string whose
\* opening quote is unit i + 1
EscapedAt(i, j, c) ==
    /\ RuneAt(j) = c
    /\ j - 1 >= i + 2
    /\ IsEscapeRune(RuneAt(j - 1))

\* the index of the first unescaped closing rune of the string whose opening
\* quote is unit i + 1, or 0 when there is none
StringEnd(i) ==
    LET c == Closing(RuneAt(i + 1))
        ends == {j \in (i + 2)..Len(input) :
                    RuneAt(j) = c /\ ~EscapedAt(i, j, c)}
    IN IF ends = {} THEN 0
       ELSE CHOOSE j \in ends : \A j2 \in ends : j <= j2

\* the runes of the units from + 1 .. to without the escape runes that stand
\* right before an occurrence of c
RECURSIVE Unescaped(_, _, _)
Unescaped(from, to, c) ==
    IF from >= to THEN <<>>
    ELSE IF IsEscapeRune(RuneAt(to)) /\ RuneAt(to + 1) = c
    THEN Unescaped(from, to - 1, c)
    ELSE Append(Unescaped(from, to - 1, c), RuneAt(to))

\* C15: an attempt that starts at the opening quote of a terminated string
\* surfaces one String token that starts there, and the text of a String
\* token is the opening rune, the body without the escape runes that stand
\* right before a closing rune (all other runes verbatim and in order), and
\* the closing rune.
C15_StringText ==
    /\ \A k \in 1..Len(produced) :
          produced[k].token.Type = "String" =>
             LET o == RuneAt(produced[k].from + 1)
             IN produced[k].token.Text =
                   <<o>> \o Unescaped(produced[k].from + 1,
                                      produced[k].to - 1, Closing(o))
                        \o <<Closing(o)>>
    /\ (ret \in {"true", "false"} /\ tokStart < Len(input)
           /\ QuoteOK(ts, RuneAt(tokStart + 1)) /\ StringEnd(tokStart) > 0)
          => /\ ret = "true"
             /\ Surfaced.token.Type = "String"
             /\ Surfaced.from = tokStart

\* a String token was surfaced whose body lost an escape rune
C15_Witness ==
    /\ ret = "true"
    /\ Surfaced.token.Type = "String"
    /\ Len(Surfaced.token.Text) < Surfaced.to - Surfaced.from
    /\ \E j \in 2..(Len(Surfaced.token.Text) - 1) :
           Surfaced.token.Text[j] = Surfaced.token.FirstRune

\* the quote runes of a sequence other than c, in order
QuotesIn(runes, c) ==
    SelectSeq(runes, LAMBDA x : IsQuoteRuneFancy(x) /\ x # c)

\* C16: a String token ends at the first unescaped occurrence of the closing
\* rune paired with its opening rune, which for the fancy pairs is not the
\* opening rune; the opening rune and the other quote runes inside the body
\* stay in the text as they are and do not end the string.
C16_StringEnd ==
    \A k \in 1..Len(produced) :
        produced[k].token.Type = "String" =>
           LET o == RuneAt(produced[k].from + 1)
               text == produced[k].token.Text
           IN /\ produced[k].to = StringEnd(produced[k].from)
              /\ text[1] = o
              /\ text[Len(text)] = Closing(o)
              /\ (ts.fancy /\ o \in {8220, 8216, 8249, 171}) => Closing(o) # o
              /\ QuotesIn(SubSeq(text, 2, Len(text) - 1), Closing(o))
                    = QuotesIn(Span(produced[k].from + 1, produced[k].to - 1),
                               Closing(o))

\* with the fancy predicate, a string opened by U+201C was surfaced whose
\* body holds another U+201C and a '"'
C16_Witness ==
    /\ ret = "true"
    /\ ts.fancy
    /\ Surfaced.token.Type = "String"
    /\ Surfaced.token.FirstRune = 8220
    /\ \E i, j \in 2..(Len(Surfaced.token.Text) - 1) :
           /\ Surfaced.token.Text[i] = 8220
           /\ Surfaced.token.Text[j] = 34

\* C17: an attempt that starts at "/*" with a "*/" after it surfaces or
\* skips one Comment token that starts there, and a Comment token that
\* starts with "/*" ends with the first "*/" after the opener and has
\* exactly that span as its text, whatever '*' runes the body holds.
C17_BlockComment ==
    /\ \A k \in 1..Len(produced) :
          (produced[k].token.Type = "Comment"
             /\ IsAt(produced[k].from, SLASH, STAR)) =>
             /\ produced[k].to = BlockCommentEnd(produced[k].from)
             /\ produced[k].token.Text
                   = Span(produced[k].from, produced[k].to)
    /\ (ret \in {"true", "false"} /\ IsAt(tokStart, SLASH, STAR)
           /\ BlockCommentEnd(tokStart) > 0)
          => /\ ret = "true"
             /\ Surfaced.token.Type = "Comment"
             /\ Surfaced.from = tokStart

\* C18: a Comment token that starts with "//" extends through the next
\* end-of-line rune, or through the end of the input when none follows, and
\* its text is exactly that span; an attempt that starts at "//" yields it,
\* and when it ends at the end of the input Err() is nil after a Scan that
\* surfaced it and the end-of-input sentinel after a Scan that skipped it.
C18_LineComment ==
    /\ \A k \in 1..Len(produced) :
          (produced[k].token.Type = "Comment"
             /\ IsAt(produced[k].from, SLASH, SLASH)) =>
             /\ produced[k].to = LineCommentEnd(produced[k].from)
             /\ produced[k].token.Text
                   = Span(produced[k].from, produced[k].to)
             /\ (k = Len(produced) /\ produced[k].to = Len(input)) =>
                   \/ ret = "true" /\ Err(ts) = Nil
                   \/ ret = "false" /\ Err(ts) = EOF /\ ts.SkipComments
    /\ (ret \in {"true", "false"} /\ IsAt(tokStart, SLASH, SLASH))
          => /\ ret = "true"
             /\ Surfaced.token.Type = "Comment"
             /\ Surfaced.from = tokStart

\* a line comment that the end of the input cut short was surfaced
C18_Witness ==
    /\ ret = "true"
    /\ Surfaced.token.Type = "Comment"
    /\ IsAt(Surfaced.from, SLASH, SLASH)
    /\ Surfaced.to = Len(input)
    /\ Surfaced.to > Surfaced.from + 2
    /\ RuneAt(Len(input)) # LF

\* C19: under the default symbol predicate every Symbol token is exactly one
\* rune, so adjacent symbol runes such as "+=" come out one token per rune.
C19_OneRuneSymbols ==
    ~ts.custom_symbols =>
        \A k \in 1..Len(produced) :
            produced[k].token.Type = "Symbol" =>
                /\ Len(produced[k].token.Text) = 1
                /\ produced[k].to = produced[k].from + 1

\* C20: with a caller's predicate that lets '=' follow '+', an attempt that
\* starts at "+=" surfaces the Symbol token "+=", and every other Symbol
\* token is one rune: the token is the longest prefix the predicate accepts
\* rune by rune, index and accepted runes considered.
C20_FusedSymbols ==
    ts.custom_symbols =>
        /\ \A k \in 1..Len(produced) :
               produced[k].token.Type = "Symbol" =>
                  \/ produced[k].token.Text = <<43, 61>>
                  \/ Len(produced[k].token.Text) = 1
        /\ (ret \in {"true", "false"} /\ IsAt(tokStart, 43, 61)) =>
               /\ ret = "true"
               /\ Surfaced.from = tokStart
               /\ Surfaced.token.Text = <<43, 61>>

\* C21: a Scan call that returns false leaves Token() as the last successful
\* scan step left it (the nil token when there was none), also when the call
\* discarded whitespace or comments before it failed.
C21_TokenHeld ==
    ret = "false" =>
        /\ Token(ts) = Token(snap.ts)
        /\ TokenText(ts) = TokenText(snap.ts)

C23_DoneIsTerminal ==
    [][(ret = "false" /\ ~ts.unread_pending) => ret' = "false"]_vars

\* Scan was called again after a call that had discarded the whole input and
\* returned false
C23_Witness ==
    /\ ret = "false"
    /\ produced = <<>>
    /\ Len(input) > 0
    /\ tokStart = Len(input)
    /\ Token(snap.ts) = NoToken

\* no classifier takes the rune ch as the first rune of a token
Unclassified(ch) ==
    /\ ~IsSpaceRune(ch)
    /\ ch # SLASH
    /\ ~QuoteOK(ts, ch)
    /\ ~IsIdentRune(ch, 0)
    /\ ~IsDigitRune(ch)
    /\ ch # MINUS
    /\ ~IsSymbolRune(ch)

\* C24: an attempt that starts at a rune no classifier takes makes Scan
\* return false with Err() nil and the rune unconsumed, and the next Scan
\* does the same, so the rest of the input is never tokenized.
C24_UnclassifiedRune ==
    (ret \in {"true", "false"} /\ tokStart < Len(input)
       /\ Unclassified(RuneAt(tokStart + 1))) =>
        /\ ret = "false"
        /\ Err(ts) = Nil
        /\ ts.reader.r = tokStart
        /\ \A r \in {Scan(ts)} : ~r.ok /\ r.s.reader.r = tokStart

\* Scan stopped at a control character that is neither the first nor the
\* last rune of the input
C24_Witness ==
    /\ ret = "false"
    /\ tokStart > 0
    /\ tokStart + 1 < Len(input)
    /\ RuneAt(tokStart + 1) = 1
    /\ Token(ts) # NoToken

\* the kind of the first classifier, in the order whitespace, comment,
\* quoted string, identifier, number, symbol, that matches at unit i + 1
KindAt(i) ==
    CASE IsSpaceRune(RuneAt(i + 1)) -> "Whitespace"
      [] IsAt(i, SLASH, SLASH) \/ IsAt(i, SLASH, STAR) -> "Comment"
      [] QuoteOK(ts, RuneAt(i + 1)) -> "String"
      [] IsIdentRune(RuneAt(i + 1), 0) -> "Ident"
      [] IsDigitRune(RuneAt(i + 1)) -> "Number"
      [] RuneAt(i + 1) = MINUS /\ IsDigitRune(RuneAt(i + 2)) -> "Number"
      [] OTHER -> "Symbol"

\* Int and Float are the two kinds of the number classifier
KindOf(token) ==
    IF token.Type \in {"Int", "Float"} THEN "Number" ELSE token.Type

\* C25: every produced token has the kind of the first classifier, in the
\* order whitespace, comment, quoted string, identifier, number, symbol,
\* that matches where the token starts; the tokens of one call follow each
\* other without a gap, and after the surfaced token the cursor is at its
\* end, so no later classifier consumed anything.
C25_ClassifierOrder ==
    /\ \A k \in 1..Len(produced) :
          /\ KindOf(produced[k].token) = KindAt(produced[k].from)
          /\ produced[k].token.FirstRune = RuneAt(produced[k].from + 1)
          /\ k < Len(produced) => produced[k + 1].from = produced[k].to
    /\ (ret = "true" /\ ~snap.redelivered) => ts.reader.r = Surfaced.to

\* an Ident that starts with '_' and holds a digit was surfaced: the symbol
\* and the number classifier could each have taken a part of it
C25_Witness ==
    /\ ret = "true"
    /\ Surfaced.token.Type = "Ident"
    /\ Surfaced.token.FirstRune = 95
    /\ \E j \in 2..Len(Surfaced.token.Text) :
           IsDigitRune(Surfaced.token.Text[j])

\* C26: an attempt that starts at a '/' followed by neither '/' nor '*' (or
\* by nothing) makes Scan return true with the Symbol token "/" that starts
\* there, and Err() is nil.
C26_LoneSlash ==
    (ret \in {"true", "false"} /\ RuneAt(tokStart + 1) = SLASH
       /\ RuneAt(tokStart + 2) \notin {SLASH, STAR}) =>
        /\ ret = "true"
        /\ Err(ts) = Nil
        /\ Surfaced.from = tokStart
        /\ Surfaced.token.Type = "Symbol"
        /\ Surfaced.token.Text = <<SLASH>>

\* C27: no Symbol token holds a rune the configured quote predicate accepts,
\* also when the symbol predicate accepts that rune; a quote rune right
\* after a Symbol token is left in the input, and the next Scan hands it to
\* the quoted-string classifier (a String token, or the unterminated-string
\* error).
C27_QuoteStopsSymbol ==
    /\ \A k \in 1..Len(produced) :
          produced[k].token.Type = "Symbol" =>
             \A j \in 1..Len(produced[k].token.Text) :
                 ~QuoteOK(ts, produced[k].token.Text[j])
    /\ (ret = "true" /\ Surfaced.token.Type = "Symbol"
           /\ QuoteOK(ts, RuneAt(Surfaced.to + 1))) =>
          /\ ts.reader.r = Surfaced.to
          /\ \A r \in {Scan(ts)} :
                 IF r.ok THEN /\ Token(r.s).Type = "String"
                              /\ Token(r.s).FirstRune = RuneAt(Surfaced.to + 1)
                 ELSE r.err.kind = "Unterminated string"

\* with the fancy predicate a Symbol token ended right before U+201C, a rune
\* the default symbol predicate accepts
C27_Witness ==
    /\ ret = "true"
    /\ ts.fancy
    /\ Surfaced.token.Type = "Symbol"
    /\ RuneAt(Surfaced.to + 1) = 8220
    /\ IsSymbolRune(8220)

\* C28: an Ident token is the input span it was read from, each of its
\* runes is accepted by the identifier predicate at its index, the rune
\* after it (if any) is rejected at the next index, and its first rune is no
\* digit; the rejected rune is still in the input and is where the next
\* Scan starts, and an Int that stops at an identifier rune is followed by
\* an Ident.
C28_IdentRun ==
    /\ \A k \in 1..Len(produced) :
          produced[k].token.Type = "Ident" =>
             LET text == produced[k].token.Text
             IN /\ text = Span(produced[k].from, produced[k].to)
                /\ \A j \in 1..Len(text) : IsIdentRune(text[j], j - 1)
                /\ produced[k].to < Len(input) =>
                      ~IsIdentRune(RuneAt(produced[k].to + 1), Len(text))
                /\ ~IsDigitRune(text[1])
    /\ (ret = "true" /\ ~snap.redelivered
           /\ Surfaced.token.Type = "Ident") =>
          /\ ts.reader.r = Surfaced.to
          /\ \A r \in {Scan(ts)} :
                 /\ r.start >= Surfaced.to
                 /\ r.trail # <<>> => r.trail[1].from = Surfaced.to
    /\ (ret = "true" /\ Surfaced.token.Type = "Int"
           /\ IsIdentRune(RuneAt(Surfaced.to + 1), 0)) =>
          \A r \in {Scan(ts)} :
              /\ r.ok
              /\ Token(r.s).Type = "Ident"
              /\ r.trail[1].from = Surfaced.to

\* an Ident with a digit in it was surfaced and a rejected rune follows it
C28_Witness ==
    /\ ret = "true"
    /\ Surfaced.token.Type = "Ident"
    /\ Surfaced.to < Len(input)
    /\ \E j \in 2..Len(Surfaced.token.Text) :
           IsDigitRune(Surfaced.token.Text[j])

\* the k-th classifier of Scan's order, applied to the scanner s
Classify(k, s) ==
    CASE k = 1 -> get_whitespace(s)
      [] k = 2 -> get_comment(s)
      [] k = 3 -> get_quoted(s)
      [] k = 4 -> get_ident(s)
      [] k = 5 -> get_number(s)
      [] OTHER -> get_symbol(s)

\* the classifier result r reports "not applicable"
NotApplicable(r) == r.token = NoToken /\ r.err = Nil

\* cursor, pending byte length, line count and column, and last token of
\* the scanners s1 and s2 are the same
SameScanner(s1, s2) ==
    /\ s1.reader.r = s2.reader.r
    /\ s1.last_byte_len = s2.last_byte_len
    /\ s1.last_line_addition = s2.last_line_addition
    /\ s1.last_col = s2.last_col
    /\ s1.LastToken = s2.LastToken
    /\ s1.pos = s2.pos

\* the classifiers from the k-th on, run the way an attempt runs them
RECURSIVE FrameFrom(_, _)
FrameFrom(s, k) ==
    \/ k > 6
    \/ \A r \in {Classify(k, s)} :
           NotApplicable(r) => (SameScanner(s, r.s) /\ FrameFrom(r.s, k + 1))

\* C29: wherever the next attempt starts, each classifier that returns no
\* token and no error there, run on its own or after the classifiers before
\* it in Scan's order, leaves the cursor, the pending byte length, line
\* count and column and the last token as they were.
C29_NotApplicableFrame ==
    ~ts.unread_pending =>
        /\ FrameFrom(update_pos(ts), 1)
        /\ \A k \in 1..6 : \A r \in {Classify(k, update_pos(ts))} :
               NotApplicable(r) => SameScanner(update_pos(ts), r.s)

\* after a token, the next attempt starts at a '-' that no digit follows:
\* the comment classifier does not apply and the number classifier does not
\* apply after its lookahead
C29_Witness ==
    /\ ret = "true"
    /\ ts.last_byte_len > 0
    /\ RuneAt(ts.reader.r + 1) = MINUS
    /\ ~IsDigitRune(RuneAt(ts.reader.r + 2))
    /\ NotApplicable(get_number(update_pos(ts)))
    /\ NotApplicable(get_comment(update_pos(ts)))

\* the tokens other than Whitespace and Comment, each with its position,
\* that at most n Scan calls surface from the scanner s on
RECURSIVE Filtered(_, _)
Filtered(s, n) ==
    IF n = 0 THEN <<>>
    ELSE Bind(Scan(s), LAMBDA r :
        IF ~r.ok THEN <<>>
        ELSE (IF Token(r.s).Type \in {"Whitespace", "Comment"} THEN <<>>
              ELSE <<[token |-> Token(r.s), pos |-> Position(r.s)]>>)
             \o Filtered(r.s, n - 1))

\* the same for the whole input, scanned with the given skip flags
TokensWith(skip_ws, skip_c) ==
    Filtered([NewScanner EXCEPT !.SkipWhitespace = skip_ws,
                                !.SkipComments = skip_c], Len(input) + 1)

\* C30: when the input has been scanned to the end, the tokens that are
\* neither Whitespace nor Comment, with the offset, line and column reported
\* for each, are the same sequence under all four settings of SkipWhitespace
\* and SkipComments.
C30_SkipFlagsOnlyFilter ==
    ret = "false" =>
        \A skip_ws, skip_c \in BOOLEAN :
            TokensWith(skip_ws, skip_c) = TokensWith(TRUE, TRUE)

\* with both flags off, an input that starts with whitespace or a line
\* comment and holds a token after it was scanned to its end
C30_Witness ==
    /\ ret = "false"
    /\ ~ts.SkipWhitespace /\ ~ts.SkipComments
    /\ tokStart = Len(input)
    /\ IsSpaceRune(RuneAt(1)) \/ IsAt(0, SLASH, SLASH)
    /\ \E k \in 1..Len(TokensWith(FALSE, FALSE)) :
           TokensWith(FALSE, FALSE)[k].pos.Offset > 0

(* ------------------- whole runs of the Scan loop ----------------------- *)
\* string(token.Text): every rune is written as the well-formed unit that
\* encodes it, so U+FFFD never comes out as the malformed byte it was read from
EncodeRune(ch) == ch

Encoded(runes) == [i \in 1..Len(runes) |-> EncodeRune(runes[i])]

\* the loop `for ts.Scan() { ... }` of at most n + 1 calls on the scanner s:
\* the texts of the surfaced tokens, the number of true results, whether
\* the loop ended, and the scanner after the last call
RECURSIVE RunLoop(_, _)
RunLoop(s, n) ==
    Bind(Scan(s), LAMBDA r :
        IF ~r.ok
        THEN [text |-> <<>>, count |-> 0, done |-> TRUE, s |-> r.s]
        ELSE IF n = 0
        THEN [text |-> Token(r.s).Text, count |-> 1, done |-> FALSE,
              s |-> r.s]
        ELSE Bind(RunLoop(r.s, n - 1), LAMBDA rest :
                [rest EXCEPT !.text = Token(r.s).Text \o @,
                             !.count = @ + 1]))

\* the scanner as configured in this behaviour, before its first Scan, with
\* both skip flags off
Unskipping ==
    [NewScanner EXCEPT !.SkipWhitespace = FALSE, !.SkipComments = FALSE,
                       !.fancy = ts.fancy,
                       !.custom_symbols = ts.custom_symbols]

\* the loop ended with the whole input read and Err() nil or io.EOF
CleanEnd(run) ==
    /\ run.done
    /\ Err(run.s) \in {Nil, EOF}
    /\ run.s.reader.r = Len(input)

\* no escape rune stands right before a rune that closes a quoted string
NoEscapedCloser ==
    \A j \in 1..(Len(input) - 1) :
        ~(IsEscapeRune(RuneAt(j))
            /\ \E o \in {34, 39, 96, 8220, 8216, 8249, 171} :
                   QuoteOK(ts, o) /\ RuneAt(j + 1) = Closing(o))

\* C31: with both skip flags off, when the Scan loop reads the input to a
\* clean end (Err() nil or io.EOF, nothing left unread) and no escape rune
\* stands right before a closing quote rune, the texts of the surfaced
\* tokens, concatenated in order, are the input.
C31_RoundTrip ==
    (ret = "false" /\ NoEscapedCloser) =>
        \A run \in {RunLoop(Unskipping, Len(input))} :
            CleanEnd(run) => Encoded(run.text) = input

\* the scanner as configured in this behaviour, before its first Scan
Configured ==
    [NewScanner EXCEPT !.SkipWhitespace = ts.SkipWhitespace,
                       !.SkipComments = ts.SkipComments,
                       !.fancy = ts.fancy,
                       !.custom_symbols = ts.custom_symbols]

\* C32: every attempt of a Scan call that produced a token, surfaced or
\* skipped, consumed at least one rune, and the loop that calls Scan until it
\* returns false ends after at most as many true results as the input has
\* runes.
C32_Termination ==
    /\ \A k \in 1..Len(produced) : produced[k].to > produced[k].from
    /\ \A run \in {RunLoop(Configured, Len(input))} :
          run.done /\ run.count <= Len(input)

\* the bound is met: with SkipWhitespace off the loop ended on an input of
\* three or more runes after one true result for each rune
C32_Witness ==
    /\ ret = "false"
    /\ ~ts.SkipWhitespace
    /\ Len(input) >= 3
    /\ RunLoop(Configured, Len(input)).count = Len(input)

\* Err() holds an error other than the end-of-input sentinel
Fatal(s) == Err(s) \notin {Nil, EOF}

\* C33: once a Scan call has returned false with a fatal error in Err(),
\* every later Scan call returns false and Err() is still that error.
C33_FatalIsSticky ==
    [][(ret = "false" /\ Fatal(ts) /\ ~ts.unread_pending)
          => (ret' = "false" /\ Err(ts') = Err(ts))]_vars

\* unit j is a closing rune c with an escape rune right before it, both in
\* the body of the string whose opening quote is unit f + 1
CloserAfterEscape(f, j, c) ==
    /\ j >= f + 3
    /\ RuneAt(j) = c
    /\ IsEscapeRune(RuneAt(j - 1))

\* C34: in a String token, a closing rune with two escape runes right before
\* it does not end the string, and for every closing rune with an escape
\* rune before it exactly one rune is missing from the text; a closing rune
\* that comes right after the opening quote, or right after an escaped
\* closing rune, ends the string.
C34_EscapeLooksOneBack ==
    /\ \A k \in 1..Len(produced) :
          produced[k].token.Type = "String" =>
             LET f == produced[k].from
                 e == produced[k].to
                 c == Closing(RuneAt(f + 1))
             IN /\ \A j \in (f + 4)..e :
                       (CloserAfterEscape(f, j, c)
                          /\ IsEscapeRune(RuneAt(j - 2))) => j < e
                /\ Len(produced[k].token.Text) =
                      (e - f) - Cardinality({j \in (f + 3)..(e - 1) :
                                               CloserAfterEscape(f, j, c)})
                /\ RuneAt(f + 2) = c => e = f + 2
                /\ \A j \in (f + 3)..(e - 1) :
                       (CloserAfterEscape(f, j, c) /\ RuneAt(j + 1) = c)
                          => e = j + 1
    /\ (ret \in {"true", "false"} /\ tokStart + 2 <= Len(input)
           /\ QuoteOK(ts, RuneAt(tokStart + 1))
           /\ RuneAt(tokStart + 2) = Closing(RuneAt(tokStart + 1)))
          => /\ ret = "true"
             /\ Surfaced.token.Type = "String"
             /\ Surfaced.to = tokStart + 2
    /\ (ret \in {"true", "false"} /\ tokStart + 4 <= Len(input)
           /\ QuoteOK(ts, RuneAt(tokStart + 1))
           /\ IsEscapeRune(RuneAt(tokStart + 2))
           /\ IsEscapeRune(RuneAt(tokStart + 3))
           /\ RuneAt(tokStart + 4) = Closing(RuneAt(tokStart + 1)))
          => \/ ret = "true" /\ Surfaced.token.Type = "String"
                  /\ Surfaced.from = tokStart /\ Surfaced.to > tokStart + 4
             \/ ret = "false" /\ Fatal(ts)

\* the string "\\"" was surfaced whole: the closing rune after the two
\* escape runes did not end it, the closing rune right after that one did
C34_Witness ==
    /\ ret = "true"
    /\ Surfaced.token.Type = "String"
    /\ Surfaced.from = 0 /\ Surfaced.to = 5
    /\ IsEscapeRune(RuneAt(2)) /\ IsEscapeRune(RuneAt(3))
    /\ RuneAt(4) = Closing(RuneAt(1))
    /\ RuneAt(5) = Closing(RuneAt(1))
    /\ Len(Surfaced.token.Text) = 4

====
